---- MODULE Spec2Model ----
(***************************************************************************)
(* BLE multi-advertising manager (stack/btm/btm_ble_multi_adv.cc).         *)
(*                                                                         *)
(* The manager runs on one dispatch loop: every public call, HCI command   *)
(* completion, RPA generation completion and alarm expiry is one handler   *)
(* that runs to completion.  Each handler is one action.  Handlers call    *)
(* each other synchronously, so they are written as operators that take    *)
(* the machine M (the manager's fields plus the log of the handler being   *)
(* run) and return the machine after the call.                             *)
(***************************************************************************)
EXTENDS Integers, Sequences, FiniteSets, TLC

(***************************************************************************)
(* Bounds of the model.                                                    *)
(***************************************************************************)
inst_count == 2          \* what ReadInstanceCountCb was given
MaxCalls == 3            \* public calls and controller events, table scenarios
MaxCallsSet == 2         \* the same, commissioning scenarios
MaxCallsTimer == 4       \* the same, duration timer scenarios
MaxCallsApi == 2         \* the same, validation scenarios
MaxCallsData == 4        \* the same, advertising data scenarios
MaxCallsRpa == 3         \* the same, address generation scenarios
MaxCallsLive == 2        \* the same, Start* calls under a controller that answers
MaxPayload == 504        \* longest payload handed to the fragmenter alone

(***************************************************************************)
(* Program constants.                                                      *)
(***************************************************************************)
ADV_DATA_LEN_MAX == 251
INTERMEDIATE == 0
FIRST == 1
LAST == 2
COMPLETE == 3
BTM_BLE_MULTI_ADV_SUCCESS == 0
BTM_BLE_MULTI_ADV_FAILURE == 1
ADVERTISE_FAILED_TOO_MANY_ADVERTISERS == 2
NO_INST == 255
BLE_ADDR_PUBLIC == 0
BLE_ADDR_RANDOM == 1
BTM_GENERAL_DISCOVERABLE == 2
BTM_LIMITED_DISCOVERABLE == 1
HCI_EIR_FLAGS_TYPE == 1
HCI_EIR_TX_POWER_LEVEL_TYPE == 10
BLE_RESOLVE_ADDR_MASK == 192
BLE_RESOLVE_ADDR_MSB == 64

VARIABLES
  BLE_PRIVACY_SPT,   \* the build's BLE_PRIVACY_SPT == TRUE
  privacy,           \* what BTM_BleLocalPrivacyEnabled() answers
  adv_inst,          \* the instance table
  alarms,            \* the scheduled one-shot duration alarms
  hci,               \* HCI commands issued and not yet completed
  rpa,               \* RPA generations requested and not yet completed
  ctx,               \* the commissioning contexts of the Start* calls
  frag,              \* record of the chunks one fragmenter run handed out
  last,              \* the handler that ran last: operation, inputs, table before
  trace,             \* what the last handler did, in order
  ncalls             \* public calls and controller events so far

vars == <<BLE_PRIVACY_SPT, privacy, adv_inst, alarms, hci, rpa, ctx, frag,
          last, trace, ncalls>>

Slots == 0 .. (inst_count - 1)
ControllerAddress == <<170, 187, 204, 221, 238, 255>>
ZeroAddress == <<0, 0, 0, 0, 0, 0>>

\* AdvertisingInstance(int inst_id): the constructor's field values.
\* adv_raddr_timer is TRUE while the periodic alarm is scheduled;
\* timeout_timer is TRUE while the pointer is not nullptr.
AdvertisingInstance ==
  [in_use |-> FALSE, advertising_event_properties |-> 0,
   adv_raddr_timer |-> FALSE, tx_power |-> 0, timeout_s |-> 0,
   timeout_timer |-> FALSE, own_address_type |-> 0,
   own_address |-> ZeroAddress]

Bit(n, k) == (n \div (2 ^ k)) % 2

is_legacy_connectable(advertising_event_properties) ==
  Bit(advertising_event_properties, 4) # 0 /\ Bit(advertising_event_properties, 0) # 0

\* uint8_t <- int8_t
ToUint8(v) == v % 256

DoNothing == [k |-> "DoNothing"]

(***************************************************************************)
(* The machine a handler works on.  cur is the commissioning context whose *)
(* continuation is running (0: none); it only attributes log entries.      *)
(***************************************************************************)
Machine ==
  [inst |-> adv_inst, alarms |-> alarms, hci |-> hci, rpa |-> rpa,
   ctx |-> ctx, frag |-> frag, trace |-> <<>>, cur |-> 0]

Ev(e, cmd, inst, arg) == [e |-> e, cmd |-> cmd, inst |-> inst, arg |-> arg]

Log(M, ev) == [M EXCEPT !.trace = Append(@, ev)]

\* GetHciInterface()->cmd(inst_id, ..., cb): the command is handed to the HCI
\* layer, which completes it later.
IssueHci(M, cmd, inst_id, arg, cb) ==
  LET M1 == [M EXCEPT !.hci = Append(@, [cmd |-> cmd, inst |-> inst_id,
                                         arg |-> arg, cb |-> cb, by |-> M.cur])]
      M2 == Log(M1, Ev("hci", cmd, inst_id, arg))
  IN IF M.cur = 0 THEN M2
     ELSE [M2 EXCEPT !.ctx[M.cur].cmds = Append(@, <<cmd, arg>>)]

\* Bookkeeping only: an Unregister or an explicit Enable(false) of inst_id
\* comes before the expiry of every duration timer of the slot, those armed
\* and those the pending Enable(true) completions will arm.
NotePreempted(M, inst_id) ==
  [M EXCEPT !.alarms = [n \in DOMAIN @ |->
                          IF @[n].inst = inst_id
                          THEN [@[n] EXCEPT !.preempted = TRUE]
                          ELSE @[n]],
            !.hci = [n \in DOMAIN @ |->
                       IF @[n].inst = inst_id /\ @[n].cb.k = "EnableWithTimerCb"
                       THEN [@[n] EXCEPT !.cb.preempted = TRUE]
                       ELSE @[n]]]

\* Bookkeeping: the duration alarms of a slot that Unregister leaves scheduled
\* belong to a registration that is over.
NoteStale(M, inst_id) ==
  [M EXCEPT !.alarms = [n \in DOMAIN @ |->
                          IF @[n].inst = inst_id
                          THEN [@[n] EXCEPT !.stale = TRUE]
                          ELSE @[n]]]

\* alarm_cancel + alarm_free of p_inst->timeout_timer
CancelTimeoutTimer(M, inst_id) ==
  [M EXCEPT !.alarms = SelectSeq(@, LAMBDA a : ~(a.inst = inst_id /\ a.owned)),
            !.inst[inst_id].timeout_timer = FALSE]

\* Unregister(inst_id).  The duration timers of the slot are left alone.
Unregister(M, inst_id) ==
  IF inst_id >= inst_count THEN M
  ELSE LET M1 == IssueHci(M, "Enable", inst_id, <<FALSE>>, DoNothing)
       IN [NoteStale(NotePreempted(M1, inst_id), inst_id) EXCEPT
             !.inst[inst_id].adv_raddr_timer = FALSE,
             !.inst[inst_id].in_use = FALSE]

UserCbCompensates(M, c, args) ==
  LET M0 == Unregister(M, M.ctx[c].inst_id)
      M1 == [M0 EXCEPT !.ctx[c].cbs = Append(@, args)]
  IN Log(M1, Ev("cb", M.ctx[c].kind, c, args))

\* The user's completion callback of the Start* call of context c.
UserCb(M, c, args) ==
  LET M1 == [M EXCEPT !.ctx[c].cbs = Append(@, args)]
  IN Log(M1, Ev("cb", M.ctx[c].kind, c, args))

\* SetParameters(inst_id, p_params, cb), up to the HCI command
SetParametersIssue(M, inst_id, p_params, cb) ==
  LET M1 == [M EXCEPT
               !.inst[inst_id].advertising_event_properties =
                   p_params.advertising_event_properties,
               !.inst[inst_id].tx_power = p_params.tx_power]
  IN IssueHci(M1, "SetParameters", inst_id,
              <<p_params.advertising_event_properties,
                M1.inst[inst_id].own_address_type,
                M1.inst[inst_id].own_address, p_params.tx_power>>, cb)

\* The lowest-index slot that is not in use (the scan of RegisterAdvertiser),
\* NO_INST when every slot is in use.
FirstFreeHighest(inst) ==
  IF \A i \in Slots : inst[i].in_use THEN NO_INST
  ELSE CHOOSE i \in Slots : ~inst[i].in_use /\ \A j \in Slots : j > i => inst[j].in_use

FirstFree(inst) ==
  IF \A i \in Slots : inst[i].in_use THEN NO_INST
  ELSE CHOOSE i \in Slots : ~inst[i].in_use /\ \A j \in Slots : j < i => inst[j].in_use

\* DivideAndSendDataRecursively: the chunk handed to the sender at offset
ChunkLength(dataSize, offset) ==
  IF dataSize - offset > ADV_DATA_LEN_MAX THEN ADV_DATA_LEN_MAX ELSE dataSize - offset

ChunkOperationSwapped(isFirst, dataSize, offset) ==
  IF isFirst
  THEN IF dataSize - offset > ADV_DATA_LEN_MAX THEN FIRST ELSE COMPLETE
  ELSE IF dataSize - offset > ADV_DATA_LEN_MAX THEN LAST ELSE INTERMEDIATE

ChunkOperation(isFirst, dataSize, offset) ==
  IF isFirst
  THEN IF dataSize - offset > ADV_DATA_LEN_MAX THEN FIRST ELSE COMPLETE
  ELSE IF dataSize - offset > ADV_DATA_LEN_MAX THEN INTERMEDIATE ELSE LAST

\* SetDataAdvDataSender, or BleAdvertiserHciInterface::SetPeriodicAdvertisingData
SenderCmd(sender) ==
  CASE sender = "scan" -> "SetScanResponseData"
    [] sender = "adv" -> "SetAdvertisingData"
    [] OTHER -> "SetPeriodicAdvertisingData"

WithFlagsAlwaysGeneral(p_inst, is_scan_rsp, data) ==
  IF ~is_scan_rsp /\ is_legacy_connectable(p_inst.advertising_event_properties)
  THEN <<2, HCI_EIR_FLAGS_TYPE, BTM_GENERAL_DISCOVERABLE>> \o data
  ELSE data

\* SetData: the Flags structure put in front of the advertising data
WithFlags(p_inst, is_scan_rsp, data) ==
  IF ~is_scan_rsp /\ is_legacy_connectable(p_inst.advertising_event_properties)
  THEN <<2, HCI_EIR_FLAGS_TYPE,
         IF p_inst.timeout_s # 0 THEN BTM_LIMITED_DISCOVERABLE
         ELSE BTM_GENERAL_DISCOVERABLE>> \o data
  ELSE data

\* SetData: the walk over the AD structures that fills in the TX power;
\* i is the zero-based index of the code.
RECURSIVE FillTxPower(_, _, _)
FillTxPower(data, i, tx_power) ==
  IF i >= Len(data) THEN data
  ELSE LET type == data[i + 2]
           d1 == IF type = HCI_EIR_TX_POWER_LEVEL_TYPE
                 THEN [data EXCEPT ![i + 3] = ToUint8(tx_power)]
                 ELSE data
       IN FillTxPower(d1, i + d1[i + 1] + 1, tx_power)

RECURSIVE RunCb(_, _, _)

DivideAndSendDataRecursivelyIgnoresStatus(M, isFirst, inst_id, data, offset, done_cb, sender, status) ==
  LET dataSize == Len(data) IN
  IF ~isFirst /\ offset = dataSize
  THEN RunCb(M, done_cb, <<status>>)
  ELSE LET operation == ChunkOperation(isFirst, dataSize, offset)
           length == ChunkLength(dataSize, offset)
           newOffset == offset + length
           bytes == SubSeq(data, offset + 1, offset + length)
           M1 == IssueHci(M, SenderCmd(sender), inst_id, <<operation, length, bytes>>,
                          [k |-> "Divide", inst_id |-> inst_id, data |-> data,
                           offset |-> newOffset, done_cb |-> done_cb,
                           sender |-> sender])
       IN IF M.frag.on
          THEN [M1 EXCEPT !.frag.sent = Append(@, <<operation, length, bytes>>)]
          ELSE M1

\* DivideAndSendDataRecursively(isFirst, inst_id, data, offset, done_cb, sender, status)
DivideAndSendDataRecursively(M, isFirst, inst_id, data, offset, done_cb, sender, status) ==
  LET dataSize == Len(data) IN
  IF status # 0 \/ (~isFirst /\ offset = dataSize)
  THEN RunCb(M, done_cb, <<status>>)
  ELSE LET operation == ChunkOperation(isFirst, dataSize, offset)
           length == ChunkLength(dataSize, offset)
           newOffset == offset + length
           bytes == SubSeq(data, offset + 1, offset + length)
           M1 == IssueHci(M, SenderCmd(sender), inst_id, <<operation, length, bytes>>,
                          [k |-> "Divide", inst_id |-> inst_id, data |-> data,
                           offset |-> newOffset, done_cb |-> done_cb,
                           sender |-> sender])
       IN IF M.frag.on
          THEN [M1 EXCEPT !.frag.sent = Append(@, <<operation, length, bytes>>)]
          ELSE M1

DivideAndSendData(M, inst_id, data, done_cb, sender) ==
  DivideAndSendDataRecursively(IF M.frag.on THEN [M EXCEPT !.frag.data = data] ELSE M,
                               TRUE, inst_id, data, 0, done_cb, sender, 0)

\* SetParameters(inst_id, p_params, cb)
SetParameters(M, inst_id, p_params, cb) ==
  IF inst_id >= inst_count THEN M
  ELSE IF ~M.inst[inst_id].in_use
       THEN RunCb(M, cb, <<BTM_BLE_MULTI_ADV_FAILURE, 0>>)
       ELSE SetParametersIssue(M, inst_id, p_params, cb)

\* SetData(inst_id, is_scan_rsp, data, cb)
SetData(M, inst_id, is_scan_rsp, data, cb) ==
  IF inst_id >= inst_count THEN M
  ELSE LET d1 == WithFlags(M.inst[inst_id], is_scan_rsp, data)
           d2 == FillTxPower(d1, 0, M.inst[inst_id].tx_power)
       IN DivideAndSendData(M, inst_id, d2, cb,
                            IF is_scan_rsp THEN "scan" ELSE "adv")

\* Enable(inst_id, enable, cb, timeout_s, timeout_cb)
Enable(M, inst_id, enable, cb, timeout_s, timeout_cb) ==
  IF inst_id >= inst_count THEN M
  ELSE IF ~M.inst[inst_id].in_use
       THEN RunCb(M, cb, <<BTM_BLE_MULTI_ADV_FAILURE>>)
       ELSE IF enable /\ timeout_s # 0
            THEN IssueHci(M, "Enable", inst_id, <<enable>>,
                          [k |-> "EnableWithTimerCb", inst_id |-> inst_id,
                           enable_cb |-> cb, timeout_s |-> timeout_s,
                           timeout_cb |-> timeout_cb, preempted |-> FALSE])
            ELSE LET M1 == IF M.inst[inst_id].timeout_timer
                           THEN CancelTimeoutTimer(M, inst_id)
                           ELSE M
                 IN IssueHci(M1, "Enable", inst_id, <<enable>>, cb)

\* EnableWithTimerCb(inst_id, enable_cb, timeout_s, timeout_cb, status)
EnableWithTimerCb(M, k, status) ==
  LET M1 == RunCb(M, k.enable_cb, <<status>>)
      disown == [n \in DOMAIN M1.alarms |->
                   IF M1.alarms[n].inst = k.inst_id
                   THEN [M1.alarms[n] EXCEPT !.owned = FALSE]
                   ELSE M1.alarms[n]]
  IN [M1 EXCEPT !.inst[k.inst_id].timeout_s = k.timeout_s,
                !.inst[k.inst_id].timeout_timer = TRUE,
                !.alarms = Append(disown,
                                  [inst |-> k.inst_id, owned |-> TRUE,
                                   timeout_cb |-> k.timeout_cb,
                                   status |-> status,
                                   preempted |-> k.preempted,
                                   stale |-> FALSE])]

\* SetPeriodicAdvertisingParameters / Data / Enable
SetPeriodicAdvertisingParameters(M, inst_id, cb) ==
  IssueHci(M, "SetPeriodicAdvertisingParameters", inst_id, <<>>, cb)

SetPeriodicAdvertisingData(M, inst_id, data, cb) ==
  DivideAndSendData(M, inst_id, data, cb, "periodic")

SetPeriodicAdvertisingEnable(M, inst_id, enable, cb) ==
  IssueHci(M, "SetPeriodicAdvertisingEnable", inst_id, <<enable>>, cb)

\* RegisterAdvertiser(cb)
RegisterAdvertiser(M, cb) ==
  LET i == FirstFree(M.inst) IN
  IF i = NO_INST
  THEN RunCb(M, cb, <<255, ADVERTISE_FAILED_TOO_MANY_ADVERTISERS>>)
  ELSE LET M1 == [M EXCEPT !.inst[i].in_use = TRUE] IN
       IF BLE_PRIVACY_SPT
       THEN IF privacy
            THEN [M1 EXCEPT !.inst[i].own_address_type = BLE_ADDR_RANDOM,
                            !.rpa = Append(@, [k |-> "RegisterAdvertiser",
                                               inst_id |-> i, cb |-> cb])]
            ELSE M1
       ELSE RunCb([M1 EXCEPT !.inst[i].own_address_type = BLE_ADDR_PUBLIC,
                             !.inst[i].own_address = ControllerAddress],
                  cb, <<i, BTM_BLE_MULTI_ADV_SUCCESS>>)

\* StartAdvertisingSetFinish(c)
StartAdvertisingSetFinish(M, c) ==
  Enable(M, M.ctx[c].inst_id, TRUE, [k |-> "SetFinish", c |-> c],
         M.ctx[c].timeout_s, [k |-> "timeout_cb", inst_id |-> M.ctx[c].inst_id])

StartAdvertisingSetPeriodicPartSkipsSteps(M, c) ==
  SetPeriodicAdvertisingEnable(M, M.ctx[c].inst_id, TRUE, [k |-> "SetPeriodic3", c |-> c])

\* StartAdvertisingSetPeriodicPart(c)
StartAdvertisingSetPeriodicPart(M, c) ==
  SetPeriodicAdvertisingParameters(M, M.ctx[c].inst_id, [k |-> "SetPeriodic1", c |-> c])

\* The failure branch of every StartAdvertisingSet continuation
SetFailedNoUnregister(M, c, status) ==
  UserCb(M, c, <<0, 0, status>>)

SetFailed(M, c, status) ==
  UserCb(Unregister(M, M.ctx[c].inst_id), c, <<0, 0, status>>)

\* A bound callback is run with the arguments of the completion.
RunCb(M0, cb, args) ==
  LET c == IF "c" \in DOMAIN cb THEN cb.c ELSE 0
      M == IF c # 0 THEN [M0 EXCEPT !.cur = c] ELSE M0
      id == IF c # 0 THEN M.ctx[c].inst_id ELSE NO_INST
  IN
  CASE cb.k = "DoNothing" -> M
    [] cb.k \in {"user", "userP", "userR", "timeout_cb"} ->
         Log(IF M.frag.on THEN [M EXCEPT !.frag.done = Append(@, args[1])] ELSE M,
             Ev("cb", cb.k, IF "inst_id" \in DOMAIN cb THEN cb.inst_id ELSE NO_INST, args))
    [] cb.k = "EnableWithTimerCb" -> EnableWithTimerCb(M, cb, args[1])
    [] cb.k = "Divide" ->
         DivideAndSendDataRecursively(M, FALSE, cb.inst_id, cb.data, cb.offset,
                                      cb.done_cb, cb.sender, args[1])
    \* StartAdvertising, lines 275-315
    [] cb.k = "Start1" ->
         IF args[1] # 0 THEN UserCb(M, c, <<args[1]>>)
         ELSE LET M1 == [M EXCEPT !.inst[id].tx_power = args[2]]
              IN IssueHci(M1, "SetRandomAddress", id, <<M1.inst[id].own_address>>,
                          [k |-> "Start2", c |-> c])
    [] cb.k = "Start2" ->
         IF args[1] # 0 THEN UserCb(M, c, <<args[1]>>)
         ELSE SetData(M, id, FALSE, M.ctx[c].advertise_data, [k |-> "Start3", c |-> c])
    [] cb.k = "Start3" ->
         IF args[1] # 0 THEN UserCb(M, c, <<args[1]>>)
         ELSE SetData(M, id, TRUE, M.ctx[c].scan_response_data, [k |-> "Start4", c |-> c])
    [] cb.k = "Start4" ->
         IF args[1] # 0 THEN UserCb(M, c, <<args[1]>>)
         ELSE Enable(M, id, TRUE, [k |-> "StartCb", c |-> c], M.ctx[c].timeout_s,
                     [k |-> "timeout_cb", inst_id |-> id])
    [] cb.k = "StartCb" -> UserCb(M, c, <<args[1]>>)
    \* StartAdvertisingSet, lines 342-400
    [] cb.k = "Set0" ->
         IF args[2] # 0 THEN UserCb(M, c, <<0, 0, args[2]>>)
         ELSE LET M1 == [M EXCEPT !.ctx[c].inst_id = args[1]]
              IN SetParameters(M1, args[1], M.ctx[c].params, [k |-> "Set1", c |-> c])
    [] cb.k = "Set1" ->
         IF args[1] # 0 THEN SetFailed(M, c, args[1])
         ELSE LET M1 == [M EXCEPT !.inst[id].tx_power = args[2]]
              IN IssueHci(M1, "SetRandomAddress", id, <<M1.inst[id].own_address>>,
                          [k |-> "Set2", c |-> c])
    [] cb.k = "Set2" ->
         IF args[1] # 0 THEN SetFailed(M, c, args[1])
         ELSE SetData(M, id, FALSE, M.ctx[c].advertise_data, [k |-> "Set3", c |-> c])
    [] cb.k = "Set3" ->
         IF args[1] # 0 THEN SetFailed(M, c, args[1])
         ELSE SetData(M, id, TRUE, M.ctx[c].scan_response_data, [k |-> "Set4", c |-> c])
    [] cb.k = "Set4" ->
         IF args[1] # 0 THEN SetFailed(M, c, args[1])
         ELSE IF M.ctx[c].periodic_enable
              THEN StartAdvertisingSetPeriodicPart(M, c)
              ELSE StartAdvertisingSetFinish(M, c)
    \* StartAdvertisingSetPeriodicPart, lines 408-439
    [] cb.k = "SetPeriodic1" ->
         IF args[1] # 0 THEN SetFailed(M, c, args[1])
         ELSE SetPeriodicAdvertisingData(M, id, M.ctx[c].periodic_data,
                                         [k |-> "SetPeriodic2", c |-> c])
    [] cb.k = "SetPeriodic2" ->
         IF args[1] # 0 THEN SetFailed(M, c, args[1])
         ELSE SetPeriodicAdvertisingEnable(M, id, TRUE, [k |-> "SetPeriodic3", c |-> c])
    [] cb.k = "SetPeriodic3" ->
         IF args[1] # 0 THEN SetFailed(M, c, args[1])
         ELSE StartAdvertisingSetFinish(M, c)
    \* the enable_cb of StartAdvertisingSetFinish, lines 448-459
    [] cb.k = "SetFinish" ->
         IF args[1] # 0 THEN SetFailed(M, c, args[1])
         ELSE UserCb(M, c, <<id, M.inst[id].tx_power, args[1]>>)

\* OnRpaGenerationComplete(inst_id, cb, rand); rand holds rand[0], rand[1], rand[2].
\* SMP_Encrypt is outside this file: Hash stands for its first three output bytes.
Hash(prand) ==
  <<(prand[1] * 7 + prand[3]) % 256, (prand[2] * 5 + 1) % 256, (prand[3] * 3 + prand[1]) % 256>>

MaskPrandSetsBit7(r) == ((r % (256 - BLE_RESOLVE_ADDR_MASK)) + 2 * BLE_RESOLVE_ADDR_MSB)

MaskPrand(r) == ((r % (256 - BLE_RESOLVE_ADDR_MASK)) + BLE_RESOLVE_ADDR_MSB)

OnRpaGenerationComplete(M, p, rand) ==
  LET r == <<rand[1], rand[2], MaskPrand(rand[3])>>
      output == Hash(r)
      M1 == [M EXCEPT !.inst[p.inst_id].own_address =
                        <<r[3], r[2], r[1], output[3], output[2], output[1]>>]
  IN IF p.k = "RegisterAdvertiser"
     THEN RunCb([M1 EXCEPT !.inst[p.inst_id].adv_raddr_timer = TRUE], p.cb,
                <<p.inst_id, BTM_BLE_MULTI_ADV_SUCCESS>>)
     ELSE \* ConfigureRpa
          IssueHci(M1, "SetRandomAddress", p.inst_id,
                   <<M1.inst[p.inst_id].own_address>>, DoNothing)

(***************************************************************************)
(* Inputs.                                                                 *)
(***************************************************************************)
\* controller statuses: success and a failure (0x12)
Statuses == {0, 18}
FailStatus == CHOOSE s \in Statuses : s # 0
\* advertising_event_properties: legacy connectable scannable (0x13) and
\* high duty cycle directed (0x04); the tx power asked for and the one the
\* controller selects
Props == [LegacyConnectable |-> 19, Directed |-> 4]
TxPower == [Requested |-> 9, Granted |-> 4]
Timeouts == {0, 30}
RandDraw == <<17, 34, 255>>
ManufacturerData == <<2, 255, 66>>
TxPowerData == <<2, 10, 0>>
LongData == <<255, 255>> \o [n \in 1 .. 254 |-> n]
AnyId == 0 .. inst_count    \* every slot, and one id past the table
\* a payload of n bytes for the fragmenter alone
Payload(n) == [j \in 1 .. n |-> (j * 7 + 3) % 256]

\* The table as a caller can observe it: the fields of every slot, and whether
\* a duration alarm of the slot is scheduled.
TableView(inst, al) ==
  [i \in Slots |->
     [in_use |-> inst[i].in_use,
      advertising_event_properties |-> inst[i].advertising_event_properties,
      tx_power |-> inst[i].tx_power, timeout_s |-> inst[i].timeout_s,
      own_address_type |-> inst[i].own_address_type,
      own_address |-> inst[i].own_address,
      adv_raddr_timer |-> inst[i].adv_raddr_timer,
      timeout_timer |-> \E n \in DOMAIN al : al[n].inst = i]]

NewContext(kind, inst_id, props, adv, scan, pe, pdata, timeout_s) ==
  [kind |-> kind, inst_id |-> inst_id,
   params |-> [advertising_event_properties |-> props, tx_power |-> TxPower.Requested],
   advertise_data |-> adv, scan_response_data |-> scan,
   periodic_enable |-> pe, periodic_data |-> pdata, timeout_s |-> timeout_s,
   cbs |-> <<>>, cmds |-> <<>>, pre |-> TableView(adv_inst, alarms), quiet |-> TRUE,
   unregistered |-> FALSE]

\* The manager after construction and ReadInstanceCountCb.  privacy is only
\* read in a build with BLE_PRIVACY_SPT.
Constructed ==
  /\ BLE_PRIVACY_SPT \in BOOLEAN
  /\ privacy \in BOOLEAN
  /\ privacy => BLE_PRIVACY_SPT
  /\ adv_inst = [i \in Slots |-> AdvertisingInstance]
  /\ alarms = <<>>
  /\ hci = <<>>
  /\ rpa = <<>>
  /\ ctx = <<>>
  /\ last = [op |-> "init", args |-> <<>>, own |-> 0,
             pre |-> [i \in Slots |-> AdvertisingInstance]]
  /\ trace = <<>>
  /\ ncalls = 0

Init ==
  /\ Constructed
  /\ frag = [on |-> FALSE, data |-> <<>>, sent |-> <<>>, done |-> <<>>]

\* The handler ends: the machine becomes the state.  own is the context the
\* handler belongs to (0: none); any other handler ends the quiet of a
\* context whose callback has not run yet.
Commit(M, op, args, own, count) ==
  /\ adv_inst' = M.inst
  /\ alarms' = M.alarms
  /\ hci' = M.hci
  /\ rpa' = M.rpa
  /\ ctx' = [c \in DOMAIN M.ctx |->
               IF c # own /\ c \in DOMAIN ctx /\ ctx[c].cbs = <<>>
               THEN [M.ctx[c] EXCEPT !.quiet = FALSE]
               ELSE M.ctx[c]]
  /\ frag' = M.frag
  /\ trace' = M.trace
  /\ last' = [op |-> op, args |-> args, own |-> own, pre |-> adv_inst]
  /\ ncalls' = ncalls + count
  /\ UNCHANGED <<BLE_PRIVACY_SPT, privacy>>

(***************************************************************************)
(* Public operations.                                                      *)
(***************************************************************************)
RegisterCall ==
  Commit(RegisterAdvertiser(Machine, [k |-> "userR"]), "Register", <<>>, 0, 1)

\* Bookkeeping only: a caller's Unregister(inst_id) finds the pipelines that
\* have a command in flight for the slot.
NoteUnregistered(M, inst_id) ==
  [M EXCEPT !.ctx = [c \in DOMAIN @ |->
                       IF /\ @[c].inst_id = inst_id
                          /\ \E n \in DOMAIN M.hci :
                               M.hci[n].by = c /\ M.hci[n].cb # DoNothing
                       THEN [@[c] EXCEPT !.unregistered = TRUE]
                       ELSE @[c]]]

UnregisterCall(ids) ==
  \E inst_id \in ids :
    Commit(Unregister(NoteUnregistered(Machine, inst_id), inst_id),
           "Unregister", <<inst_id>>, 0, 1)

SetParametersCall(ids, propss) ==
  \E inst_id \in ids, props \in propss :
    Commit(SetParameters(Machine, inst_id,
                         [advertising_event_properties |-> props,
                          tx_power |-> TxPower.Requested],
                         [k |-> "userP"]),
           "SetParameters", <<inst_id, props>>, 0, 1)

SetDataCall(ids) ==
  \E inst_id \in ids, is_scan_rsp \in BOOLEAN :
    Commit(SetData(Machine, inst_id, is_scan_rsp, TxPowerData, [k |-> "user"]),
           "SetData", <<inst_id, is_scan_rsp>>, 0, 1)

EnableCall(ids) ==
  \E inst_id \in ids, enable \in BOOLEAN, timeout_s \in Timeouts :
    Commit(Enable(IF enable \/ inst_id >= inst_count THEN Machine
                  ELSE NotePreempted(Machine, inst_id),
                  inst_id, enable,
                  [k |-> "user"], timeout_s,
                  [k |-> "timeout_cb", inst_id |-> inst_id]),
           "Enable", <<inst_id, enable, timeout_s>>, 0, 1)

SetPeriodicAdvertisingParametersCall(ids) ==
  \E inst_id \in ids :
    Commit(SetPeriodicAdvertisingParameters(Machine, inst_id, [k |-> "user"]),
           "SetPeriodicAdvertisingParameters", <<inst_id>>, 0, 1)

SetPeriodicAdvertisingDataCall(ids) ==
  \E inst_id \in ids :
    Commit(SetPeriodicAdvertisingData(Machine, inst_id, ManufacturerData,
                                      [k |-> "user"]),
           "SetPeriodicAdvertisingData", <<inst_id>>, 0, 1)

SetPeriodicAdvertisingEnableCall(ids) ==
  \E inst_id \in ids, enable \in BOOLEAN :
    Commit(SetPeriodicAdvertisingEnable(Machine, inst_id, enable, [k |-> "user"]),
           "SetPeriodicAdvertisingEnable", <<inst_id, enable>>, 0, 1)

\* StartAdvertising(advertiser_id, cb, params, advertise_data,
\*                  scan_response_data, timeout_s, timeout_cb)
StartAdvertising(M, c) ==
  SetParameters(M, M.ctx[c].inst_id, M.ctx[c].params, [k |-> "Start1", c |-> c])

StartAdvertisingCall(ids) ==
  \E advertiser_id \in ids, adv \in {ManufacturerData, LongData},
     timeout_s \in Timeouts :
    LET c == Len(ctx) + 1
        M == [Machine EXCEPT
                !.ctx = Append(@, NewContext("StartAdvertising", advertiser_id,
                                             Props.LegacyConnectable, adv, <<>>, FALSE,
                                             <<>>, timeout_s)),
                !.cur = c]
    IN Commit(StartAdvertising(M, c), "StartAdvertising", <<c>>, c, 1)

\* StartAdvertisingSet(cb, params, advertise_data, scan_response_data,
\*                     periodic_params, periodic_data, timeout_s, timeout_cb)
StartAdvertisingSet(M, c) ==
  RegisterAdvertiser(M, [k |-> "Set0", c |-> c])

StartAdvertisingSetCall(propss, advs, pes, timeouts) ==
  \E props \in propss, adv \in advs, pe \in pes, timeout_s \in timeouts :
    LET c == Len(ctx) + 1
        M == [Machine EXCEPT
                !.ctx = Append(@, NewContext("StartAdvertisingSet", NO_INST,
                                             props, adv, <<>>, pe,
                                             ManufacturerData, timeout_s)),
                !.cur = c]
    IN Commit(StartAdvertisingSet(M, c), "StartAdvertisingSet", <<c>>, c, 1)

(***************************************************************************)
(* Events.                                                                 *)
(***************************************************************************)
OnAdvertisingSetTerminatedAlwaysReenables(M, advertising_handle, oob_in_use, oob_props) ==
  LET in_use == IF advertising_handle < inst_count
                THEN M.inst[advertising_handle].in_use ELSE oob_in_use
  IN IF in_use
     THEN IssueHci(M, "Enable", advertising_handle, <<TRUE>>, DoNothing)
     ELSE M

\* OnAdvertisingSetTerminated(status, advertising_handle, connection_handle, n).
\* A handle past the table reads memory that is not an instance: the in_use
\* and the properties read there can be anything.
OnAdvertisingSetTerminated(M, advertising_handle, oob_in_use, oob_props) ==
  LET in_use == IF advertising_handle < inst_count
                THEN M.inst[advertising_handle].in_use ELSE oob_in_use
      props == IF advertising_handle < inst_count
               THEN M.inst[advertising_handle].advertising_event_properties
               ELSE oob_props
  IN IF in_use
     THEN IF Bit(props, 2) = 0 /\ Bit(props, 3) = 0
          THEN IssueHci(M, "Enable", advertising_handle, <<TRUE>>, DoNothing)
          ELSE IF advertising_handle < inst_count
               THEN [M EXCEPT !.inst[advertising_handle].in_use = FALSE]
               ELSE M
     ELSE M

AdvertisingSetTerminated(handles) ==
  \E advertising_handle \in handles, oob_in_use \in BOOLEAN,
     oob_props \in {0, Props.Directed} :
    /\ advertising_handle < inst_count => (oob_in_use /\ oob_props = 0)
    /\ Commit(OnAdvertisingSetTerminated(Machine, advertising_handle,
                                         oob_in_use, oob_props),
              "OnAdvertisingSetTerminated", <<advertising_handle>>, 0, 1)

\* The HCI layer completes the oldest command and runs its callback with the
\* controller's status (DoNothing reads none: one status stands for all).
HciCommandComplete ==
  /\ hci # <<>>
  /\ \E status \in IF Head(hci).cb = DoNothing THEN {0} ELSE Statuses :
       LET h == Head(hci)
           M == [Machine EXCEPT !.hci = Tail(@), !.cur = h.by]
           args == IF h.cmd = "SetParameters"
                   THEN <<status, IF status = 0 THEN TxPower.Granted ELSE 0>>
                   ELSE <<status>>
       IN Commit(RunCb(M, h.cb, args), "complete", <<h.cmd, h.inst, h.arg, status, h.cb.k>>,
                 h.by, 0)

\* btm_gen_resolvable_private_addr delivers the random bytes.
RpaGenerated ==
  /\ rpa # <<>>
  /\ LET p == Head(rpa)
         M == [Machine EXCEPT !.rpa = Tail(@)]
     IN Commit(OnRpaGenerationComplete(M, p, RandDraw), "rpa", <<p.k, p.inst_id>>,
               IF p.k = "RegisterAdvertiser" /\ "c" \in DOMAIN p.cb THEN p.cb.c ELSE 0,
               0)

\* btm_ble_adv_raddr_timer_timeout -> ConfigureRpa -> GenerateRpa
ConfigureRpa(M, inst_id) ==
  [M EXCEPT !.rpa = Append(@, [k |-> "ConfigureRpa", inst_id |-> inst_id])]

RaddrTimerFire ==
  \E i \in Slots :
    /\ adv_inst[i].adv_raddr_timer
    /\ Commit(ConfigureRpa(Machine, i), "adv_raddr_timer", <<i>>, 0, 1)

\* alarm_closure_cb of a duration alarm: Enable(inst_id, 0, timeout_cb, 0, DoNothing)
TimeoutTimerFire ==
  \E n \in DOMAIN alarms :
    LET a == alarms[n]
        M == [Machine EXCEPT !.alarms = SubSeq(@, 1, n - 1) \o SubSeq(@, n + 1, Len(@))]
    IN Commit(Enable(M, a.inst, FALSE, a.timeout_cb, 0, DoNothing),
              "timeout_timer", <<a.inst, a.status, a.preempted, a.stale>>, 0, 0)

(***************************************************************************)
(* Specifications.  Each is the manager under one family of callers; the   *)
(* completions and timers are the same handlers in all of them.            *)
(***************************************************************************)
\* Every public operation and controller event, with any inst_id.
NextApi ==
  \/ ncalls < MaxCallsApi /\ RegisterCall
  \/ ncalls < MaxCallsApi /\ UnregisterCall(AnyId)
  \/ ncalls < MaxCallsApi /\ SetParametersCall(AnyId, {Props.LegacyConnectable})
  \/ ncalls < MaxCallsApi /\ SetDataCall(AnyId)
  \/ ncalls < MaxCallsApi /\ EnableCall(AnyId)
  \/ ncalls < MaxCallsApi /\ SetPeriodicAdvertisingParametersCall(AnyId)
  \/ ncalls < MaxCallsApi /\ SetPeriodicAdvertisingDataCall(AnyId)
  \/ ncalls < MaxCallsApi /\ SetPeriodicAdvertisingEnableCall(AnyId)
  \/ ncalls < MaxCallsApi /\ StartAdvertisingCall(AnyId)
  \/ ncalls < MaxCallsApi
       /\ StartAdvertisingSetCall({Props.LegacyConnectable}, {ManufacturerData}, {TRUE}, {30})
  \/ ncalls < MaxCallsApi /\ AdvertisingSetTerminated(AnyId)
  \/ ncalls < MaxCallsApi /\ RaddrTimerFire
  \/ HciCommandComplete
  \/ RpaGenerated
  \/ TimeoutTimerFire

Spec == Init /\ [][NextApi]_vars

\* Allocation: Register, Unregister, StartAdvertisingSet and terminations.
NextTable ==
  \/ ncalls < MaxCalls /\ RegisterCall
  \/ ncalls < MaxCalls /\ UnregisterCall(AnyId)
  \/ ncalls < MaxCalls /\ ctx = <<>>
       /\ StartAdvertisingSetCall({Props.Directed}, {ManufacturerData}, {FALSE}, {0})
  \/ ncalls < MaxCalls /\ AdvertisingSetTerminated(Slots)
  \/ HciCommandComplete
  \/ RpaGenerated

SpecTable == Init /\ [][NextTable]_vars

\* Commissioning: one Start* pipeline and what can run between its steps.
NextSet ==
  \/ ncalls < MaxCallsSet /\ RegisterCall
  \/ ncalls < MaxCallsSet /\ UnregisterCall(Slots)
  \/ ncalls < MaxCallsSet /\ ctx = <<>> /\ StartAdvertisingCall(Slots)
  \/ ncalls < MaxCallsSet /\ ctx = <<>>
       /\ StartAdvertisingSetCall({Props.LegacyConnectable, Props.Directed},
                                  {ManufacturerData, LongData}, BOOLEAN, Timeouts)
  \/ ncalls < MaxCallsSet /\ AdvertisingSetTerminated(Slots)
  \/ ncalls < MaxCallsSet /\ RaddrTimerFire
  \/ HciCommandComplete
  \/ RpaGenerated
  \/ TimeoutTimerFire

SpecSet == Init /\ [][NextSet]_vars

\* Duration timers: Enable with a timeout and what can come before the expiry.
NextTimer ==
  \/ ncalls < MaxCallsTimer /\ RegisterCall
  \/ ncalls < MaxCallsTimer /\ UnregisterCall(Slots)
  \/ ncalls < MaxCallsTimer /\ EnableCall(Slots)
  \/ ncalls < MaxCallsTimer /\ SetParametersCall(Slots, {Props.Directed})
  \/ ncalls < MaxCallsTimer /\ AdvertisingSetTerminated(Slots)
  \/ HciCommandComplete
  \/ RpaGenerated
  \/ TimeoutTimerFire

SpecTimer == Init /\ [][NextTimer]_vars

\* The fragmenter alone: one SetPeriodicAdvertisingData call, which hands its
\* payload to DivideAndSendData as it is.
FragmentCall ==
  /\ ncalls = 0
  /\ \E n \in 0 .. MaxPayload :
       Commit(SetPeriodicAdvertisingData(Machine, 0, Payload(n), [k |-> "user"]),
              "SetPeriodicAdvertisingData", <<0, n>>, 0, 1)

InitFragment ==
  /\ Constructed
  /\ frag = [on |-> TRUE, data |-> <<>>, sent |-> <<>>, done |-> <<>>]

NextFragment ==
  \/ FragmentCall
  \/ HciCommandComplete

SpecFragment == InitFragment /\ [][NextFragment]_vars

\* Advertising data: SetData on instances with different properties, tx
\* powers and timeouts, with payloads made of complete AD structures, by a
\* caller that waits for the controller's answer before the next call.
AdPayloads ==
  {<<>>, ManufacturerData, TxPowerData, <<2, 255, 10>>, <<3, 10, 0, 7>>,
   <<2, 255, 66, 2, 10, 0>>, <<2, 10, 1, 1, 9, 2, 10, 3>>}

SetParametersTxCall(ids, propss, tx_powers) ==
  \E inst_id \in ids, props \in propss, tx_power \in tx_powers :
    Commit(SetParameters(Machine, inst_id,
                         [advertising_event_properties |-> props,
                          tx_power |-> tx_power],
                         [k |-> "userP"]),
           "SetParameters", <<inst_id, props, tx_power>>, 0, 1)

SetDataPayloadCall(ids, datas) ==
  \E inst_id \in ids, is_scan_rsp \in BOOLEAN, data \in datas :
    Commit(SetData(Machine, inst_id, is_scan_rsp, data, [k |-> "user"]),
           "SetData", <<inst_id, is_scan_rsp, data>>, 0, 1)

NextData ==
  \/ ncalls < MaxCallsData /\ hci = <<>> /\ RegisterCall
  \/ ncalls < MaxCallsData /\ hci = <<>>
       /\ SetParametersTxCall({0}, {0, 1, 16, Props.LegacyConnectable}, {TxPower.Requested, -7})
  \/ ncalls < MaxCallsData /\ hci = <<>> /\ EnableCall({0})
  \/ ncalls < MaxCallsData /\ hci = <<>> /\ SetDataPayloadCall({0}, AdPayloads)
  \/ HciCommandComplete
  \/ RpaGenerated
  \/ TimeoutTimerFire

SpecData == Init /\ [][NextData]_vars

\* btm_ble_adv_init with QuirkAdvertiserZeroHandle(): the manager as
\* constructed, after RegisterAdvertiser(Bind(DoNothing2)).
InitQuirk ==
  /\ BLE_PRIVACY_SPT \in BOOLEAN
  /\ privacy \in BOOLEAN
  /\ privacy => BLE_PRIVACY_SPT
  /\ LET M0 == [inst |-> [i \in Slots |-> AdvertisingInstance], alarms |-> <<>>,
                hci |-> <<>>, rpa |-> <<>>, ctx |-> <<>>,
                frag |-> [on |-> FALSE, data |-> <<>>, sent |-> <<>>, done |-> <<>>],
                trace |-> <<>>, cur |-> 0]
         M == RegisterAdvertiser(M0, DoNothing)
     IN /\ adv_inst = M.inst
        /\ alarms = M.alarms
        /\ hci = M.hci
        /\ rpa = M.rpa
        /\ ctx = M.ctx
        /\ frag = M.frag
        /\ trace = M.trace
        /\ last = [op |-> "init", args |-> <<>>, own |-> 0, pre |-> M0.inst]
  /\ ncalls = 0

NextQuirk ==
  \/ ncalls < MaxCalls /\ RegisterCall
  \/ ncalls < MaxCalls /\ UnregisterCall(Slots)
  \/ ncalls < MaxCalls /\ ctx = <<>>
       /\ StartAdvertisingSetCall({Props.LegacyConnectable}, {ManufacturerData}, {FALSE}, {0})
  \/ ncalls < MaxCalls /\ RaddrTimerFire
  \/ HciCommandComplete
  \/ RpaGenerated

SpecQuirk == InitQuirk /\ [][NextQuirk]_vars

\* Address generation: Register with privacy and rotations, with different
\* random draws.
RandDraws == {RandDraw, <<0, 0, 0>>, <<1, 2, 128>>, <<200, 100, 64>>, <<255, 255, 63>>}

RpaGeneratedDraw(draws) ==
  /\ rpa # <<>>
  /\ \E rand \in draws :
       LET p == Head(rpa)
           M == [Machine EXCEPT !.rpa = Tail(@)]
       IN Commit(OnRpaGenerationComplete(M, p, rand), "rpa", <<p.k, p.inst_id, rand>>,
                 0, 0)

NextRpa ==
  \/ ncalls < MaxCallsRpa /\ RegisterCall
  \/ ncalls < MaxCallsRpa /\ RaddrTimerFire
  \/ RpaGeneratedDraw(RandDraws)
  \/ HciCommandComplete

SpecRpa == Init /\ [][NextRpa]_vars

\* Start* calls under an HCI layer that completes every command it is given
\* and an address generator that delivers every address asked of it.
NextLive ==
  \/ ncalls < MaxCallsLive /\ RegisterCall
  \/ ncalls < MaxCallsLive /\ StartAdvertisingCall(AnyId)
  \/ ncalls < MaxCallsLive
       /\ StartAdvertisingSetCall({Props.LegacyConnectable}, {ManufacturerData}, {FALSE}, {0})
  \/ HciCommandComplete
  \/ RpaGenerated
  \/ TimeoutTimerFire

SpecLive ==
  /\ Init
  /\ [][NextLive]_vars
  /\ WF_vars(HciCommandComplete)
  /\ WF_vars(RpaGenerated)

(***************************************************************************)
(* Properties.  A property about a handler reads what the handler did from *)
(* trace and last: they hold the events and the inputs of the handler that *)
(* produced the state, and the table that handler started from.            *)
(***************************************************************************)
TableFull(t) == \A i \in Slots : t[i].in_use
LowestFree(t, i) == ~t[i].in_use /\ \A j \in Slots : j < i => t[j].in_use
Callbacks == SelectSeq(trace, LAMBDA ev : ev.e = "cb")
HciIssued == SelectSeq(trace, LAMBDA ev : ev.e = "hci")
SetCtx == {c \in DOMAIN ctx : ctx[c].kind = "StartAdvertisingSet"}
\* the places in trace where the user callback of context c is invoked
CbAt(c) ==
  {n \in DOMAIN trace :
     trace[n].e = "cb" /\ trace[n].cmd = ctx[c].kind /\ trace[n].inst = c}
\* the commands of pipeline c awaiting completion with a continuation of c
InFlight(c) == {n \in DOMAIN hci : hci[n].by = c /\ hci[n].cb # DoNothing}



\* C1: the slots in use never exceed inst_count; a Register (alone or as the
\* first step of StartAdvertisingSet) reports TOO_MANY_ADVERTISERS exactly
\* when every slot was in use, and otherwise takes the lowest free slot and
\* no other.
C1_RegisterAllocatesLowestFree ==
  /\ Cardinality({i \in Slots : adv_inst[i].in_use}) <= inst_count
  /\ last.op = "Register" =>
       ((\E n \in DOMAIN trace :
           trace[n] = Ev("cb", "userR", NO_INST,
                         <<255, ADVERTISE_FAILED_TOO_MANY_ADVERTISERS>>))
        <=> TableFull(last.pre))
  /\ last.op = "StartAdvertisingSet" =>
       ((\E n \in DOMAIN trace :
           trace[n].e = "cb"
           /\ trace[n].arg = <<0, 0, ADVERTISE_FAILED_TOO_MANY_ADVERTISERS>>)
        <=> TableFull(last.pre))
  /\ last.op \in {"Register", "StartAdvertisingSet"} =>
       /\ TableFull(last.pre) =>
            \A j \in Slots : adv_inst[j].in_use
       /\ \A i \in Slots :
            LowestFree(last.pre, i) =>
              /\ adv_inst[i].in_use
              /\ \A j \in Slots \ {i} : adv_inst[j].in_use = last.pre[j].in_use

C1_Witness ==
  /\ last.op = "Register"
  /\ TableFull(last.pre)
  /\ Callbacks = <<Ev("cb", "userR", NO_INST,
                      <<255, ADVERTISE_FAILED_TOO_MANY_ADVERTISERS>>)>>

\* C2: with local privacy off and a free slot, Register makes the allocated
\* slot PUBLIC with the controller's address and invokes the callback exactly
\* once with (inst_id, SUCCESS).
C2_RegisterPublicAddress ==
  (last.op = "Register" /\ ~privacy /\ ~TableFull(last.pre)) =>
    \A i \in Slots :
      LowestFree(last.pre, i) =>
        /\ adv_inst[i].own_address_type = BLE_ADDR_PUBLIC
        /\ adv_inst[i].own_address = ControllerAddress
        /\ Callbacks = <<Ev("cb", "userR", NO_INST, <<i, BTM_BLE_MULTI_ADV_SUCCESS>>)>>

\* the StartAdvertisingSet call of context c reports a failure in this handler
FailedNow(c) == \E n \in CbAt(c) : trace[n].arg[3] # 0

\* C3: when a StartAdvertisingSet reports a failure (and nothing else ran
\* since the call), every field and timer of every slot is as it was before
\* the call.
C3_FailureRestoresTable ==
  \A c \in SetCtx :
    (FailedNow(c) /\ ctx[c].quiet) => TableView(adv_inst, alarms) = ctx[c].pre

\* C4: when a step of StartAdvertisingSet after a successful Register
\* completes with a non-zero status, Unregister has run (Enable(false)
\* issued, slot free) before the user callback, which gets (0, 0, status),
\* once; and the pipeline issues nothing afterwards.
C4_FailureCompensated ==
  \A c \in SetCtx :
    /\ Len(ctx[c].cbs) <= 1
    /\ ctx[c].cbs # <<>> => InFlight(c) = {}
    /\ (last.op = "complete" /\ last.own = c /\ last.args[5] # "DoNothing"
        /\ last.args[4] # 0) =>
         /\ CbAt(c) # {}
         /\ ctx[c].cbs = << <<0, 0, last.args[4]>> >>
    /\ \A n \in CbAt(c) :
         (trace[n].arg[3] # 0 /\ ctx[c].inst_id # NO_INST) =>
           /\ trace[n].arg = <<0, 0, trace[n].arg[3]>>
           /\ \E m \in 1 .. (n - 1) :
                trace[m] = Ev("hci", "Enable", ctx[c].inst_id, <<FALSE>>)
           /\ ~adv_inst[ctx[c].inst_id].in_use
           /\ \A m \in (n + 1) .. Len(trace) : trace[m].e # "hci"

C4_Witness ==
  /\ last.op = "complete"
  /\ last.args[1] = "SetAdvertisingData"
  /\ last.args[4] = FailStatus
  /\ \E c \in SetCtx :
       /\ ctx[c].cbs = << <<0, 0, FailStatus>> >>
       /\ ~adv_inst[ctx[c].inst_id].in_use
       /\ HciIssued = <<Ev("hci", "Enable", ctx[c].inst_id, <<FALSE>>)>>

\* C5: the duration timer of an Enable(true, timeout_s > 0) that completed
\* with status 0 issues Enable(false) for its inst_id exactly once, and none
\* at all when an Unregister or an explicit Enable(false) of that inst_id
\* came first.
C5_TimerDisablesOnce ==
  (last.op = "timeout_timer" /\ last.args[2] = 0) =>
    Len(SelectSeq(trace, LAMBDA ev :
                    ev = Ev("hci", "Enable", last.args[1], <<FALSE>>)))
      = IF last.args[3] THEN 0 ELSE 1

\* The place of a command in the pipeline order.
Phase(cmd) ==
  CASE cmd[1] = "SetParameters" -> 1
    [] cmd[1] = "SetRandomAddress" -> 2
    [] cmd[1] = "SetAdvertisingData" -> 3
    [] cmd[1] = "SetScanResponseData" -> 4
    [] cmd[1] = "SetPeriodicAdvertisingParameters" -> 5
    [] cmd[1] = "SetPeriodicAdvertisingData" -> 6
    [] cmd[1] = "SetPeriodicAdvertisingEnable" -> 7
    [] cmd[1] = "Enable" -> IF cmd[2][1] THEN 8 ELSE 9

IsData(p) == p \in {3, 4, 6}

\* command b may follow command a in the commands of pipeline c
StepOk(c, a, b) ==
  LET p == Phase(a)
      q == Phase(b)
      closed == IsData(p) => a[2][1] \in {COMPLETE, LAST}
      opens == IsData(q) => b[2][1] \in {COMPLETE, FIRST}
  IN \/ /\ p = q
        /\ IsData(p)
        /\ a[2][1] \in {FIRST, INTERMEDIATE}
        /\ b[2][1] \in {INTERMEDIATE, LAST}
     \/ p \in {1, 2, 3, 5, 6, 7} /\ q = p + 1 /\ closed /\ opens
     \/ p = 4 /\ closed /\ q = (IF ctx[c].periodic_enable THEN 5 ELSE 8)
     \/ p # 9 /\ q = 9 /\ ctx[c].kind = "StartAdvertisingSet"

PipelineOrder(c) ==
  LET s == ctx[c].cmds IN
  /\ s # <<>> =>
       \/ Phase(s[1]) = 1
       \/ Phase(s[1]) = 9 /\ ctx[c].kind = "StartAdvertisingSet"
  /\ \A n \in 1 .. (Len(s) - 1) : StepOk(c, s[n], s[n + 1])

\* pipeline c has started on a slot and has not invoked its user callback
Running(c) == ctx[c].cbs = <<>> /\ ctx[c].inst_id # NO_INST

\* C6 as claimed: while a Start* pipeline runs on an inst_id, the commands
\* issued for that inst_id are the pipeline's, in pipeline order, one at a
\* time, and no other command for the inst_id comes between them.
C6_NoOtherCommandInterleaved ==
  \A c \in DOMAIN ctx :
    /\ PipelineOrder(c)
    /\ Cardinality(InFlight(c)) <= 1
    /\ Running(c) =>
         \A n \in DOMAIN trace :
           (trace[n].e = "hci" /\ trace[n].inst = ctx[c].inst_id) => last.own = c

\* C6 as amended: the commands a Start* pipeline itself issues follow the
\* pipeline order (ended, when a StartAdvertisingSet fails, by the
\* Enable(false) of Unregister), each issued only when the previous one has
\* completed; a successful pipeline ends with Enable(true).
C6_PipelineOrder ==
  \A c \in DOMAIN ctx :
    /\ PipelineOrder(c)
    /\ Cardinality(InFlight(c)) <= 1
    /\ ctx[c].cbs # <<>> => InFlight(c) = {}
    /\ (ctx[c].cbs # <<>> /\ ctx[c].cbs[1][Len(ctx[c].cbs[1])] = 0) =>
         Phase(ctx[c].cmds[Len(ctx[c].cmds)]) = 8

C6_Witness ==
  \E c \in SetCtx :
    /\ ctx[c].cbs # <<>>
    /\ ctx[c].cbs[1][3] = 0
    /\ ctx[c].periodic_enable
    /\ Len(ctx[c].cmds) = 9

\* C7: the fragmenter hands the sender chunks of at most 251 bytes; when
\* every chunk completed with status 0 their concatenation is the payload,
\* tagged COMPLETE alone, or FIRST, INTERMEDIATE..., LAST; and the done
\* callback is invoked once, with the status of the last completion, when
\* nothing is left to send.
RECURSIVE Concat(_)
Concat(sent) == IF sent = <<>> THEN <<>> ELSE Head(sent)[3] \o Concat(Tail(sent))

TagsOk(sent, size) ==
  IF size <= ADV_DATA_LEN_MAX
  THEN Len(sent) = 1 /\ sent[1][1] = COMPLETE
  ELSE /\ Len(sent) >= 2
       /\ sent[1][1] = FIRST
       /\ sent[Len(sent)][1] = LAST
       /\ \A n \in 2 .. (Len(sent) - 1) : sent[n][1] = INTERMEDIATE

C7_FragmenterRoundTrip ==
  frag.on =>
    /\ \A n \in DOMAIN frag.sent :
         /\ frag.sent[n][2] <= ADV_DATA_LEN_MAX
         /\ frag.sent[n][2] = Len(frag.sent[n][3])
    /\ Len(frag.done) <= 1
    /\ frag.done = <<0>> =>
         /\ Concat(frag.sent) = frag.data
         /\ TagsOk(frag.sent, Len(frag.data))
    /\ (frag.sent # <<>> /\ hci = <<>>) => Len(frag.done) = 1
    /\ frag.done # <<>> =>
         /\ hci = <<>>
         /\ last.op = "complete"
         /\ frag.done = <<last.args[4]>>

C7_Witness ==
  /\ frag.done = <<0>>
  /\ Len(frag.sent) = 3
  /\ frag.sent[2][1] = INTERMEDIATE
  /\ Len(frag.data) = 2 * ADV_DATA_LEN_MAX + 1

\* C8: a slot that is not in use has no timer scheduled, neither its
\* adv_raddr_timer nor a duration timer.
C8_FreeSlotHasNoTimer ==
  \A i \in Slots :
    ~adv_inst[i].in_use =>
      /\ ~adv_inst[i].adv_raddr_timer
      /\ \A n \in DOMAIN alarms : alarms[n].inst # i

\* C9: every HCI command the manager issues carries an inst_id below
\* inst_count.
C9_HciInstIdInRange ==
  /\ \A n \in DOMAIN trace : trace[n].e = "hci" => trace[n].inst < inst_count
  /\ \A n \in DOMAIN hci : hci[n].inst < inst_count

\* C10: SetParameters, SetData and Enable on an in-range inst_id whose slot
\* is not in use issue no HCI command, leave the table unchanged and invoke
\* the callback with FAILURE.
C10_NotInUseRejected ==
  (/\ last.op \in {"SetParameters", "SetData", "Enable"}
   /\ last.args[1] < inst_count
   /\ ~last.pre[last.args[1]].in_use) =>
    /\ HciIssued = <<>>
    /\ adv_inst = last.pre
    /\ \E n \in DOMAIN trace :
         trace[n].e = "cb" /\ trace[n].arg[1] = BTM_BLE_MULTI_ADV_FAILURE

\* the directed bits (properties & 0x0C) of a properties value
DirectedBits(props) == (props \div 4) % 4

\* C11: a set-terminated event for the handle of a slot in use re-enables the
\* set with exactly one Enable(true, handle) and keeps in_use when the slot's
\* directed bits are zero, and issues nothing and clears in_use when they are
\* not; for a slot not in use it issues nothing and leaves the table as it is.
C11_TerminatedReenablesOrFrees ==
  (last.op = "OnAdvertisingSetTerminated" /\ last.args[1] < inst_count) =>
    LET h == last.args[1]
        p == last.pre[h]
    IN IF p.in_use
       THEN IF DirectedBits(p.advertising_event_properties) = 0
            THEN /\ HciIssued = <<Ev("hci", "Enable", h, <<TRUE>>)>>
                 /\ adv_inst[h].in_use
            ELSE /\ HciIssued = <<>>
                 /\ ~adv_inst[h].in_use
       ELSE /\ HciIssued = <<>>
            /\ adv_inst = last.pre

C11_Witness ==
  /\ last.op = "OnAdvertisingSetTerminated"
  /\ last.args[1] < inst_count
  /\ last.pre[last.args[1]].in_use
  /\ DirectedBits(last.pre[last.args[1]].advertising_event_properties) # 0
  /\ ~adv_inst[last.args[1]].in_use
  /\ trace = <<>>

StartCtx == {c \in DOMAIN ctx : ctx[c].kind = "StartAdvertising"}

\* C12: when a step of a StartAdvertising pipeline completes with a non-zero
\* status, the handler invokes the user callback with that status and does
\* nothing else: no HCI command (no Enable(false) of an Unregister), in_use
\* of every slot as before; the callback is invoked at most once and the
\* pipeline has no command in flight afterwards.
C12_StartFailureNoCompensation ==
  \A c \in StartCtx :
    /\ Len(ctx[c].cbs) <= 1
    /\ ctx[c].cbs # <<>> => InFlight(c) = {}
    /\ (last.op = "complete" /\ last.own = c /\ last.args[5] # "DoNothing"
        /\ last.args[4] # 0) =>
         /\ trace = <<Ev("cb", "StartAdvertising", c, <<last.args[4]>>)>>
         /\ ctx[c].cbs = << <<last.args[4]>> >>
         /\ \A i \in Slots : adv_inst[i].in_use = last.pre[i].in_use

C12_Witness ==
  \E c \in StartCtx :
    /\ last.op = "complete"
    /\ last.own = c
    /\ last.args[1] = "SetScanResponseData"
    /\ last.args[4] = FailStatus
    /\ ctx[c].cbs = << <<FailStatus>> >>
    /\ adv_inst[ctx[c].inst_id].in_use
    /\ hci = <<>>

\* C13: when an Unregister(i) ran while a Start* pipeline for slot i had a
\* command in flight, the pipeline's continuations that run afterwards issue
\* no HCI command for slot i and write no field of slot i.
C13_UnregisteredPipelineStops ==
  \A c \in DOMAIN ctx :
    (/\ last.op = "complete"
     /\ last.own = c
     /\ last.args[5] # "DoNothing"
     /\ ctx[c].unregistered) =>
      /\ \A n \in DOMAIN trace :
           trace[n].e = "hci" => trace[n].inst # ctx[c].inst_id
      /\ adv_inst[ctx[c].inst_id] = last.pre[ctx[c].inst_id]

\* C14: no two Start* pipelines that have started, have a command in flight
\* and have not invoked their user callback run on the same inst_id.
C14_OnePipelinePerSlot ==
  \A c1, c2 \in DOMAIN ctx :
    (/\ c1 # c2
     /\ Running(c1) /\ InFlight(c1) # {}
     /\ Running(c2) /\ InFlight(c2) # {}) =>
      ctx[c1].inst_id # ctx[c2].inst_id

\* the duration timer timeout_timer of slot i points to is scheduled
TimeoutTimerArmed(i) == \E n \in DOMAIN alarms : alarms[n].inst = i /\ alarms[n].owned

\* C15: when an Enable(true) of an instance in use (a caller's, a pipeline's
\* or the re-enable of the termination handler) has just completed with
\* status 0 and the instance's timeout_s is greater than 0, the instance's
\* timeout_timer is armed.
C15_EnabledWithTimeoutHasTimer ==
  (/\ last.op = "complete"
   /\ last.args[1] = "Enable"
   /\ last.args[3] = <<TRUE>>
   /\ last.args[4] = 0
   /\ last.args[2] < inst_count) =>
    LET i == last.args[2] IN
    (adv_inst[i].in_use /\ adv_inst[i].timeout_s > 0) => TimeoutTimerArmed(i)

\* some duration timer of slot i is scheduled, whether or not timeout_timer
\* still points to it
AnyTimeoutTimer(i) == \E n \in DOMAIN alarms : alarms[n].inst = i

\* C16: Enable(inst_id, true, cb, timeout_s > 0, timeout_cb) on an instance in
\* use issues exactly one HCI Enable(true) and leaves the instance without a
\* duration timer until the completion, which invokes cb(status) and then has
\* the timer; every other Enable on an instance in use leaves no duration
\* timer of the instance and issues exactly one HCI Enable with cb passed
\* through.
C16_EnableTimerDiscipline ==
  /\ (/\ last.op = "Enable"
      /\ last.args[1] < inst_count
      /\ last.pre[last.args[1]].in_use) =>
       LET i == last.args[1] IN
       /\ trace = <<Ev("hci", "Enable", i, <<last.args[2]>>)>>
       /\ ~AnyTimeoutTimer(i)
       /\ hci[Len(hci)].cb.k =
            (IF last.args[2] /\ last.args[3] > 0 THEN "EnableWithTimerCb" ELSE "user")
  /\ (last.op = "complete" /\ last.args[5] = "EnableWithTimerCb") =>
       /\ Callbacks = <<Ev("cb", "user", NO_INST, <<last.args[4]>>)>>
       /\ TimeoutTimerArmed(last.args[2])

\* The payload SetData is to hand out, told structure by structure: every AD
\* structure of type 0x0A gets the tx power byte as its first value byte.
RECURSIVE TxPowerFilled(_, _)
TxPowerFilled(data, byte) ==
  IF data = <<>> THEN <<>>
  ELSE LET n == data[1] + 1
           ad == SubSeq(data, 1, n)
       IN (IF ad[2] = 10 THEN [ad EXCEPT ![3] = byte] ELSE ad)
            \o TxPowerFilled(SubSeq(data, n + 1, Len(data)), byte)

\* C17: SetData on a payload of complete AD structures (those of type 0x0A
\* carrying a value byte) hands out the payload with {2, 0x01, value} in
\* front exactly when it is not a scan response and the instance's properties
\* have bit 4 and bit 0 set, value being LIMITED (1) when the instance's
\* timeout_s is not zero and GENERAL (2) otherwise, and with the first value
\* byte of every structure of type 0x0A replaced by the instance's tx_power.
C17_SetDataFlagsAndTxPower ==
  (last.op = "SetData" /\ Len(last.args) = 3 /\ last.args[1] < inst_count) =>
    LET p == last.pre[last.args[1]]
        props == p.advertising_event_properties
        flags == IF ~last.args[2] /\ (props \div 16) % 2 = 1 /\ props % 2 = 1
                 THEN <<2, 1, IF p.timeout_s # 0 THEN 1 ELSE 2>>
                 ELSE <<>>
        byte == IF p.tx_power < 0 THEN p.tx_power + 256 ELSE p.tx_power
        out == TxPowerFilled(flags \o last.args[3], byte)
    IN trace = <<Ev("hci",
                    IF last.args[2] THEN "SetScanResponseData" ELSE "SetAdvertisingData",
                    last.args[1], <<COMPLETE, Len(out), out>>)>>

C17_Witness ==
  /\ last.op = "SetData"
  /\ last.args = <<0, FALSE, <<2, 10, 1, 1, 9, 2, 10, 3>> >>
  /\ last.pre[0].timeout_s # 0
  /\ last.pre[0].tx_power < 0
  /\ trace[1].arg[3] = <<2, 1, 1, 2, 10, 249, 1, 9, 2, 10, 249>>

\* C18: with the zero-handle quirk, slot 0 is allocated by the initialization
\* and afterwards no Register and no StartAdvertisingSet delivers inst_id 0
\* to its caller or runs its pipeline on slot 0.
C18_ZeroHandleNeverUsed ==
  /\ last.op = "init" => adv_inst[0].in_use
  /\ \A n \in DOMAIN trace :
       (trace[n].e = "cb" /\ trace[n].cmd = "userR") =>
         ~(trace[n].arg[1] = 0 /\ trace[n].arg[2] = BTM_BLE_MULTI_ADV_SUCCESS)
  /\ \A c \in SetCtx :
       /\ ctx[c].inst_id # 0
       /\ \A n \in DOMAIN ctx[c].cbs :
            ctx[c].cbs[n][3] = 0 => ctx[c].cbs[n][1] # 0

\* C19 as claimed: after an RPA generation the top two bits of own_address
\* byte 5 are bit 7 clear and bit 6 set.
C19_Byte5HasResolvableBits ==
  (last.op = "rpa" /\ Len(last.args) = 3) =>
    adv_inst[last.args[2]].own_address[6] \div 64 = 1

\* C19 as amended: after an RPA generation own_address byte 0 has bit 7 clear
\* and bit 6 set; bytes 0..2 hold prand (the masked rand[2], rand[1], rand[0])
\* and bytes 3..5 hold the hash of prand, its first byte in byte 5.
C19_Byte0HasResolvableBits ==
  (last.op = "rpa" /\ Len(last.args) = 3) =>
    LET a == adv_inst[last.args[2]].own_address
        rand == last.args[3]
        masked == rand[3] - 64 * (rand[3] \div 64) + 64
        output == Hash(<<rand[1], rand[2], masked>>)
    IN /\ a[1] \div 64 = 1
       /\ <<a[1], a[2], a[3]>> = <<masked, rand[2], rand[1]>>
       /\ <<a[4], a[5], a[6]>> = <<output[3], output[2], output[1]>>

C19_Witness ==
  /\ last.op = "rpa"
  /\ Len(last.args) = 3
  /\ last.args[3] = <<200, 100, 64>>
  /\ adv_inst[last.args[2]].own_address[1] = 64
  /\ adv_inst[last.args[2]].own_address[6] \div 64 # 1

\* C20: a StartAdvertisingSet call that succeeds invokes its user callback with
\* (inst_id, tx_power, 0): inst_id the slot its Register step allocated and
\* tx_power the value granted in the completion of its own SetParameters,
\* whatever else was called on the manager meanwhile.
C20_SuccessReportsGrantedTxPower ==
  \A c \in DOMAIN ctx :
    ctx[c].kind = "StartAdvertisingSet" =>
      \A n \in DOMAIN ctx[c].cbs :
        ctx[c].cbs[n][3] = 0 => ctx[c].cbs[n] = <<ctx[c].inst_id, TxPower.Granted, 0>>

\* C21: in DivideAndSendData, when the completion of a chunk carries a
\* non-zero status, the done callback is invoked exactly once, with that
\* status, and the sender is not called again: the failing chunk is the last
\* one handed out and no command is left, whatever the payload size and the
\* position of the failing chunk.
C21_ChunkFailureStops ==
  (frag.on /\ last.op = "complete" /\ last.args[4] # 0) =>
    /\ frag.done = <<last.args[4]>>
    /\ hci = <<>>
    /\ frag.sent[Len(frag.sent)] = last.args[3]
    /\ Len(Concat(frag.sent)) <= Len(frag.data)
    /\ Len(frag.sent) = (Len(Concat(frag.sent)) + ADV_DATA_LEN_MAX - 1) \div ADV_DATA_LEN_MAX
         + (IF frag.data = <<>> THEN 1 ELSE 0)

C21_Witness ==
  /\ frag.on
  /\ last.op = "complete"
  /\ last.args[4] # 0
  /\ last.args[3][1] = INTERMEDIATE
  /\ Len(frag.sent) = 2
  /\ Len(frag.data) = 2 * ADV_DATA_LEN_MAX + 2
  /\ frag.done = <<FailStatus>>

\* C22: when the HCI Enable(true) issued by Enable(inst_id, true, timeout_s > 0)
\* completes with a non-zero status, the instance has no duration timer armed
\* afterwards and its timeout_s is as before the completion.
C22_FailedEnableArmsNoTimer ==
  (/\ last.op = "complete"
   /\ last.args[1] = "Enable"
   /\ last.args[5] = "EnableWithTimerCb"
   /\ last.args[4] # 0) =>
     /\ ~AnyTimeoutTimer(last.args[2])
     /\ ~adv_inst[last.args[2]].timeout_timer
     /\ adv_inst[last.args[2]].timeout_s = last.pre[last.args[2]].timeout_s

\* C23: a duration timer armed during one registration of a slot does not act
\* on a later registration of the slot: when a timer that was armed before an
\* Unregister(i) fires after i has been handed out again, no Enable(false)
\* for i is issued (and so no timeout callback comes of it).
C23_StaleTimerDoesNotAct ==
  (last.op = "timeout_timer" /\ last.args[4] /\ last.pre[last.args[1]].in_use) =>
    \A n \in DOMAIN trace : trace[n] # Ev("hci", "Enable", last.args[1], <<FALSE>>)

\* The last thing asked of instance i is an Enable(false) of the caller or of
\* the duration timer, which was issued: the handler that just ran issued
\* it, or its completion just came and no Enable(true) of i is pending.
DisableRequested(i) ==
  \/ /\ last.op = "Enable"
     /\ last.args[1] = i
     /\ ~last.args[2]
     /\ trace = <<Ev("hci", "Enable", i, <<FALSE>>)>>
  \/ /\ last.op = "timeout_timer"
     /\ last.args[1] = i
     /\ trace = <<Ev("hci", "Enable", i, <<FALSE>>)>>
  \/ /\ last.op = "complete"
     /\ last.args[1] = "Enable"
     /\ last.args[2] = i
     /\ last.args[3] = <<FALSE>>
     /\ last.args[5] \in {"user", "timeout_cb"}
     /\ adv_inst[i].in_use
     /\ \A n \in DOMAIN hci : ~(hci[n].cmd = "Enable" /\ hci[n].inst = i)

\* C24: once an Enable(inst_id, false) of the caller or of the duration timer
\* has been issued for an instance in use, no HCI Enable(true) is issued for
\* that inst_id before a caller asks for one: a set-terminated event for the
\* handle that comes next issues none.
C24_DisabledStaysDisabled ==
  [][\A i \in Slots :
       (DisableRequested(i) /\ last'.op = "OnAdvertisingSetTerminated" /\ last'.args[1] = i)
         => \A n \in DOMAIN trace' : trace'[n] # Ev("hci", "Enable", i, <<TRUE>>)]_vars

\* C25: when the HCI layer completes every command, every StartAdvertising
\* call (whatever its advertiser_id) and every StartAdvertisingSet call
\* eventually invokes its user callback, and never more than once.
C25_StartEventuallyCallsBack ==
  /\ [](\A c \in DOMAIN ctx : Len(ctx[c].cbs) <= 1)
  /\ \A c \in 1 .. MaxCallsLive :
       (c \in DOMAIN ctx) ~> (c \in DOMAIN ctx /\ Len(ctx[c].cbs) = 1)

====
